---- MODULE Spec2Model ----
(***************************************************************************)
(* Model of abstrie_core/src/trie.rs: the segmented trie builder           *)
(* (TrieNode::from_sequences) and the length-grouped transformer           *)
(* (LengthGroupedNode::from_trie).                                         *)
(*                                                                         *)
(* Tokens are small integers.  A token sequence (Rust &[T], Vec<T>) is a   *)
(* TLA+ sequence.  Rust indexes from 0 and TLA+ from 1: the operators At   *)
(* and Slice take the Rust (0-based) positions, so start_pos and the loop  *)
(* counters below carry the same values as in the source.                  *)
(*                                                                         *)
(* A TrieNode is a record [children, is_terminal]; children is a function  *)
(* whose domain is the set of edge labels (HashMap<Vec<T>, TrieNode<T>>).  *)
(* A LengthGroupedNode is the same record shape with children keyed by     *)
(* LengthGroupKey records [length, segments].                              *)
(*                                                                         *)
(* A HashMap is iterated in an order the library leaves open, each map in  *)
(* an order of its own.  Every operator that iterates a HashMap therefore  *)
(* yields the SET of the values the call can return, one for each order of *)
(* each map it iterates, and the actions choose from that set.             *)
(***************************************************************************)
EXTENDS Integers, Sequences, FiniteSets, TLC

VARIABLES sequences, trie, grouped, pc

vars == <<sequences, trie, grouped, pc>>

(* ------------------------------ bounds --------------------------------- *)

\* Longest token sequence in an input list of the general specification.
MaxLen == 2

\* Longest input list of the general specification.
MaxSeqs == 3

\* The deep specification draws duplicate-free, ascending input lists of at
\* most MaxSet sequences of at most MaxLen + 1 tokens.
MaxSet == 6

Tokens == {1, 2}

(* ------------------------------ helpers -------------------------------- *)

\* seq[i] of the source (0-based).
At(seq, i) == seq[i + 1]

\* seq[from..to] of the source (0-based, to exclusive).
Slice(seq, from, to) == SubSeq(seq, from + 1, to)

\* Ord for Vec<T>: lexicographic, a proper prefix sorts first.
SegLess(a, b) ==
    \E i \in 1..Len(b) :
        /\ i <= Len(a) + 1
        /\ \A j \in 1..(i - 1) : a[j] = b[j]
        /\ (i = Len(a) + 1 \/ a[i] < b[i])

\* The elements of a set of integers in ascending order.
RECURSIVE SortInts(_)
SortInts(S) ==
    IF S = {} THEN <<>>
    ELSE LET m == CHOOSE x \in S : \A y \in S : x <= y
         IN <<m>> \o SortInts(S \ {m})

\* The elements of a set of segments in ascending (BTreeSet) order.
RECURSIVE SortSegs(_)
SortSegs(S) ==
    IF S = {} THEN <<>>
    ELSE LET m == CHOOSE x \in S : \A y \in S \ {x} : SegLess(x, y)
         IN <<m>> \o SortSegs(S \ {m})

\* Every order of the entries of the list s.
RECURSIVE Reorderings(_)
Reorderings(s) ==
    IF s = <<>> THEN {<<>>}
    ELSE UNION {{<<s[i]>> \o q :
                     q \in Reorderings(SubSeq(s, 1, i - 1) \o SubSeq(s, i + 1, Len(s)))} :
                i \in 1..Len(s)}

\* Iteration order of a HashMap: unspecified by the library, and each map
\* has its own.  The orders in which the keys S can be visited: all of them.
HashIterInts(S) == Reorderings(SortInts(S))

HashIterSegs(S) == Reorderings(SortSegs(S))

\* HashMap::insert: the value stored under an existing key is replaced.
Insert(map, k, v) == [x \in (DOMAIN map) \cup {k} |-> IF x = k THEN v ELSE map[x]]

\* HashMap::new()
EmptyMap == <<>>

Range(s) == {s[i] : i \in 1..Len(s)}

(* ------------------------- segmented trie ------------------------------ *)

\* TrieNode::new
NewTrieNode == [children |-> EmptyMap, is_terminal |-> FALSE]

RECURSIVE lcp_loop(_, _, _, _)

\* lcp_loop that goes on to the next index after a mismatch instead of
\* leaving the loop.
lcp_loop_NoBreak(seqs, start_pos, i, common_len) ==
    LET first_seq == seqs[1]
    IN IF i >= Len(first_seq) THEN common_len
       ELSE IF \A k \in 1..Len(seqs) :
                   Len(seqs[k]) > i /\ At(seqs[k], i) = At(first_seq, i)
            THEN lcp_loop(seqs, start_pos, i + 1, i - start_pos + 1)
            ELSE lcp_loop(seqs, start_pos, i + 1, common_len)

\* lcp_loop whose all_match passes over the sequences that end before
\* index i instead of stopping at them.
lcp_loop_SkipShort(seqs, start_pos, i, common_len) ==
    LET first_seq == seqs[1]
    IN IF i >= Len(first_seq) THEN common_len
       ELSE IF \A k \in 1..Len(seqs) :
                   Len(seqs[k]) <= i \/ At(seqs[k], i) = At(first_seq, i)
            THEN lcp_loop(seqs, start_pos, i + 1, i - start_pos + 1)
            ELSE common_len

\* lcp_loop with common_len one long (i - start_pos + 2).
lcp_loop_OverCount(seqs, start_pos, i, common_len) ==
    LET first_seq == seqs[1]
    IN IF i >= Len(first_seq) THEN common_len
       ELSE IF \A k \in 1..Len(seqs) :
                   Len(seqs[k]) > i /\ At(seqs[k], i) = At(first_seq, i)
            THEN lcp_loop(seqs, start_pos, i + 1, i - start_pos + 2)
            ELSE common_len

\* lcp_loop with common_len one short (i - start_pos instead of
\* i - start_pos + 1).
lcp_loop_OffByOne(seqs, start_pos, i, common_len) ==
    LET first_seq == seqs[1]
    IN IF i >= Len(first_seq) THEN common_len
       ELSE IF \A k \in 1..Len(seqs) :
                   Len(seqs[k]) > i /\ At(seqs[k], i) = At(first_seq, i)
            THEN lcp_loop(seqs, start_pos, i + 1, i - start_pos)
            ELSE common_len

\* The loop of find_longest_common_prefix from index i on, common_len so far.
lcp_loop(seqs, start_pos, i, common_len) ==
    LET first_seq == seqs[1]
    IN IF i >= Len(first_seq) THEN common_len
       ELSE IF \A k \in 1..Len(seqs) :
                   Len(seqs[k]) > i /\ At(seqs[k], i) = At(first_seq, i)
            THEN lcp_loop(seqs, start_pos, i + 1, i - start_pos + 1)
            ELSE common_len

find_longest_common_prefix(seqs, start_pos) ==
    IF Len(seqs) <= 1 THEN 0
    ELSE lcp_loop(seqs, start_pos, start_pos, 0)

\* is_good_segment_breakpoint
is_good_segment_breakpoint(segment, all_sequences, start_pos) ==
    LET sequences_with_segment ==
            SelectSeq(all_sequences,
                      LAMBDA seq : /\ Len(seq) >= start_pos + Len(segment)
                                   /\ Slice(seq, start_pos, start_pos + Len(segment)) = segment)
        next_pos == start_pos + Len(segment)
        \* Option<T>: <<>> is None, <<t>> is Some(t)
        next_elements ==
            {IF Len(seq) > next_pos THEN <<At(seq, next_pos)>> ELSE <<>> :
                 seq \in Range(sequences_with_segment)}
    IN IF Len(sequences_with_segment) <= 1 THEN TRUE
       ELSE Cardinality(next_elements) > 1

\* divergence_loop that takes the first candidate length without asking
\* is_good_segment_breakpoint.
divergence_loop_FirstCandidate(target_seq, all_sequences, start_pos, len, segment_len) ==
    IF len > Len(target_seq) - start_pos THEN segment_len ELSE len

\* The loop of find_segment_until_divergence from length len on.
RECURSIVE divergence_loop(_, _, _, _, _)
divergence_loop(target_seq, all_sequences, start_pos, len, segment_len) ==
    IF len > Len(target_seq) - start_pos THEN segment_len
    ELSE IF is_good_segment_breakpoint(
                Slice(target_seq, start_pos, start_pos + len), all_sequences, start_pos)
         THEN len
         ELSE divergence_loop(target_seq, all_sequences, start_pos, len + 1, len)

\* find_segment_until_divergence that never stops at a breakpoint: the
\* segment is the whole rest of the target sequence.
find_segment_until_divergence_NoBreak(target_seq, all_sequences, start_pos) ==
    IF Len(target_seq) <= start_pos THEN <<>>
    ELSE Slice(target_seq, start_pos, Len(target_seq))

find_segment_until_divergence(target_seq, all_sequences, start_pos) ==
    IF Len(target_seq) <= start_pos THEN <<>>
    ELSE Slice(target_seq, start_pos,
               start_pos + divergence_loop(target_seq, all_sequences, start_pos, 1, 1))

\* The loop of find_optimal_segment from length len on.
RECURSIVE optimal_loop(_, _, _, _)
optimal_loop(seqs, start_pos, len, segment_len) ==
    LET first_seq == seqs[1]
        all_share_prefix ==
            \A k \in 1..Len(seqs) :
                /\ Len(seqs[k]) >= start_pos + len
                /\ Slice(seqs[k], start_pos, start_pos + len)
                       = Slice(first_seq, start_pos, start_pos + len)
        still_shared ==
            \A k \in 1..Len(seqs) :
                /\ Len(seqs[k]) >= start_pos + len + 1
                /\ At(seqs[k], start_pos + len) = At(first_seq, start_pos + len)
    IN IF len > Len(first_seq) - start_pos THEN segment_len
       ELSE IF all_share_prefix
            THEN IF len < Len(first_seq) - start_pos /\ ~still_shared
                 THEN len
                 ELSE optimal_loop(seqs, start_pos, len + 1, len)
            ELSE segment_len

\* find_optimal_segment that never extends the segment: the segment is the
\* first token of the first sequence.
find_optimal_segment_OneToken(seqs, start_pos) ==
    IF Len(seqs) = 0 THEN <<>>
    ELSE Slice(seqs[1], start_pos, start_pos + 1)

\* find_optimal_segment that does not look at the other sequences of the
\* group: the segment is the whole rest of the first sequence.
find_optimal_segment_FirstOnly(seqs, start_pos) ==
    IF Len(seqs) = 0 THEN <<>>
    ELSE Slice(seqs[1], start_pos, Len(seqs[1]))

find_optimal_segment(seqs, start_pos) ==
    IF Len(seqs) = 0 THEN <<>>
    ELSE Slice(seqs[1], start_pos, start_pos + optimal_loop(seqs, start_pos, 1, 1))

RECURSIVE build_segmented_trie(_, _)
RECURSIVE without_loop(_, _, _, _, _)
RECURSIVE divergent_loop(_, _, _, _, _)

\* build_without_common_prefix: groups is a HashMap keyed by the token at
\* start_pos, each value the sequences with that token in input order.
\* without_loop is the loop over groups, keys visited in the order keys
\* from index i on: the roots the loop can end with.
without_loop(root, seqs, start_pos, keys, i) ==
    IF i > Len(keys) THEN {root}
    ELSE LET group_sequences ==
                 SelectSeq(seqs, LAMBDA seq : Len(seq) > start_pos
                                              /\ At(seq, start_pos) = keys[i])
             segment == find_optimal_segment(group_sequences, start_pos)
         IN UNION {without_loop([root EXCEPT !.children = Insert(@, segment, child)],
                                seqs, start_pos, keys, i + 1) :
                       child \in build_segmented_trie(group_sequences,
                                                      start_pos + Len(segment))}

build_without_common_prefix(root, seqs, start_pos) ==
    LET groups == {At(seqs[k], start_pos) :
                       k \in {j \in 1..Len(seqs) : Len(seqs[j]) > start_pos}}
    IN UNION {without_loop(root, seqs, start_pos, keys, 1) : keys \in HashIterInts(groups)}

\* build_divergent_segments: groups is a HashMap keyed by the segment that
\* find_segment_until_divergence returns for each sequence.
\* divergent_loop is the loop over groups, keys visited in the order keys
\* from index i on: the roots the loop can end with.
divergent_loop(root, seqs, start_pos, keys, i) ==
    IF i > Len(keys) THEN {root}
    ELSE LET segment == keys[i]
             group_sequences ==
                 SelectSeq(seqs, LAMBDA seq :
                     find_segment_until_divergence(seq, seqs, start_pos) = segment)
         IN UNION {divergent_loop([root EXCEPT !.children = Insert(@, segment, child)],
                                  seqs, start_pos, keys, i + 1) :
                       child \in build_segmented_trie(group_sequences,
                                                      start_pos + Len(segment))}

build_divergent_segments(root, seqs, start_pos) ==
    LET groups == {find_segment_until_divergence(seqs[k], seqs, start_pos) :
                       k \in 1..Len(seqs)}
    IN UNION {divergent_loop(root, seqs, start_pos, keys, 1) : keys \in HashIterSegs(groups)}

\* build_with_common_prefix whose label ends at common_prefix_len instead
\* of start_pos + common_prefix_len.
build_with_common_prefix_EndNotOffset(root, seqs, start_pos, common_prefix_len) ==
    LET common_segment == Slice(seqs[1], start_pos, common_prefix_len)
        next_pos == start_pos + common_prefix_len
        groups == {IF Len(seqs[k]) > next_pos THEN <<At(seqs[k], next_pos)>> ELSE <<>> :
                       k \in 1..Len(seqs)}
    IN IF Cardinality(groups) = 1
       THEN {[root EXCEPT !.children = Insert(@, common_segment, child)] :
                 child \in build_segmented_trie(seqs, next_pos)}
       ELSE build_divergent_segments(root, seqs, start_pos)

build_with_common_prefix(root, seqs, start_pos, common_prefix_len) ==
    LET common_segment == Slice(seqs[1], start_pos, start_pos + common_prefix_len)
        next_pos == start_pos + common_prefix_len
        \* keys of groups, Option<T>: <<>> is None, <<t>> is Some(t)
        groups == {IF Len(seqs[k]) > next_pos THEN <<At(seqs[k], next_pos)>> ELSE <<>> :
                       k \in 1..Len(seqs)}
    IN IF Cardinality(groups) = 1
       THEN {[root EXCEPT !.children = Insert(@, common_segment, child)] :
                 child \in build_segmented_trie(seqs, next_pos)}
       ELSE build_divergent_segments(root, seqs, start_pos)

\* build_segmented_trie with the terminal test one position late
\* (seq.len() == start_pos + 1).
build_segmented_trie_LateTerminal(seqs, start_pos) ==
    LET valid_sequences == SelectSeq(seqs, LAMBDA seq : Len(seq) > start_pos)
        root == [NewTrieNode EXCEPT !.is_terminal =
                     \E k \in 1..Len(seqs) : Len(seqs[k]) = start_pos + 1]
        common_prefix_len == find_longest_common_prefix(valid_sequences, start_pos)
    IN IF Len(seqs) = 0 THEN {NewTrieNode}
       ELSE IF Len(valid_sequences) = 0 THEN {NewTrieNode}
       ELSE IF common_prefix_len > 0
            THEN build_with_common_prefix(root, valid_sequences, start_pos, common_prefix_len)
            ELSE build_without_common_prefix(root, valid_sequences, start_pos)

\* build_segmented_trie with the terminal test made before the early returns
\* and written with all() instead of a search for one sequence.
build_segmented_trie_AllEnd(seqs, start_pos) ==
    LET valid_sequences == SelectSeq(seqs, LAMBDA seq : Len(seq) > start_pos)
        root == [NewTrieNode EXCEPT !.is_terminal =
                     \A k \in 1..Len(seqs) : Len(seqs[k]) = start_pos]
        common_prefix_len == find_longest_common_prefix(valid_sequences, start_pos)
    IN IF Len(seqs) = 0 THEN {root}
       ELSE IF Len(valid_sequences) = 0 THEN {root}
       ELSE IF common_prefix_len > 0
            THEN build_with_common_prefix(root, valid_sequences, start_pos, common_prefix_len)
            ELSE build_without_common_prefix(root, valid_sequences, start_pos)

\* The tries the call can return, one for each order in which the HashMaps
\* of the call and of the calls below it can be iterated.
build_segmented_trie(seqs, start_pos) ==
    LET valid_sequences == SelectSeq(seqs, LAMBDA seq : Len(seq) > start_pos)
        root == [NewTrieNode EXCEPT !.is_terminal =
                     \E k \in 1..Len(seqs) : Len(seqs[k]) = start_pos]
        common_prefix_len == find_longest_common_prefix(valid_sequences, start_pos)
    IN IF Len(seqs) = 0 THEN {NewTrieNode}
       ELSE IF Len(valid_sequences) = 0 THEN {NewTrieNode}
       ELSE IF common_prefix_len > 0
            THEN build_with_common_prefix(root, valid_sequences, start_pos, common_prefix_len)
            ELSE build_without_common_prefix(root, valid_sequences, start_pos)

from_sequences(seqs) == build_segmented_trie(seqs, 0)

(* ------------------- completion of the builder ------------------------- *)
(* An index or a slice out of range and an unsigned subtraction below zero *)
(* abort the program.  The operators below say, for each function, that    *)
(* the indexing the source does without a guard of its own stays in range, *)
(* along the calls the function makes.                                     *)

\* find_optimal_segment: first_seq.len() - start_pos must not underflow and
\* first_seq[start_pos..start_pos + segment_len] must be in range.
find_optimal_segment_in_range(seqs, start_pos) ==
    \/ Len(seqs) = 0
    \/ /\ Len(seqs[1]) >= start_pos
       /\ start_pos + optimal_loop(seqs, start_pos, 1, 1) <= Len(seqs[1])

\* find_segment_until_divergence: target_seq[start_pos..start_pos + segment_len]
\* must be in range.
find_segment_until_divergence_in_range(target_seq, all_sequences, start_pos) ==
    \/ Len(target_seq) <= start_pos
    \/ start_pos + divergence_loop(target_seq, all_sequences, start_pos, 1, 1)
           <= Len(target_seq)

RECURSIVE build_segmented_trie_completes(_, _)

build_without_common_prefix_completes(seqs, start_pos) ==
    \A t \in {At(seqs[k], start_pos) :
                  k \in {j \in 1..Len(seqs) : Len(seqs[j]) > start_pos}} :
        LET group_sequences ==
                SelectSeq(seqs, LAMBDA seq : Len(seq) > start_pos
                                             /\ At(seq, start_pos) = t)
        IN /\ find_optimal_segment_in_range(group_sequences, start_pos)
           /\ build_segmented_trie_completes(
                  group_sequences,
                  start_pos + Len(find_optimal_segment(group_sequences, start_pos)))

build_divergent_segments_completes(seqs, start_pos) ==
    /\ \A k \in 1..Len(seqs) :
           find_segment_until_divergence_in_range(seqs[k], seqs, start_pos)
    /\ \A segment \in {find_segment_until_divergence(seqs[k], seqs, start_pos) :
                           k \in 1..Len(seqs)} :
           build_segmented_trie_completes(
               SelectSeq(seqs, LAMBDA seq :
                   find_segment_until_divergence(seq, seqs, start_pos) = segment),
               start_pos + Len(segment))

\* build_with_common_prefix: sequences[0][start_pos..start_pos + common_prefix_len]
\* must be in range.
build_with_common_prefix_completes(seqs, start_pos, common_prefix_len) ==
    LET next_pos == start_pos + common_prefix_len
        groups == {IF Len(seqs[k]) > next_pos THEN <<At(seqs[k], next_pos)>> ELSE <<>> :
                       k \in 1..Len(seqs)}
    IN /\ Len(seqs) >= 1
       /\ next_pos <= Len(seqs[1])
       /\ IF Cardinality(groups) = 1
          THEN build_segmented_trie_completes(seqs, next_pos)
          ELSE build_divergent_segments_completes(seqs, start_pos)

\* The call build_segmented_trie(seqs, start_pos) returns.
build_segmented_trie_completes(seqs, start_pos) ==
    LET valid_sequences == SelectSeq(seqs, LAMBDA seq : Len(seq) > start_pos)
        common_prefix_len == find_longest_common_prefix(valid_sequences, start_pos)
    IN \/ Len(seqs) = 0
       \/ Len(valid_sequences) = 0
       \/ IF common_prefix_len > 0
          THEN build_with_common_prefix_completes(valid_sequences, start_pos,
                                                  common_prefix_len)
          ELSE build_without_common_prefix_completes(valid_sequences, start_pos)

from_sequences_completes(seqs) == build_segmented_trie_completes(seqs, 0)

(* ------------------------ length-grouped trie -------------------------- *)

\* LengthGroupedNode::new
NewGroupedNode == [children |-> EmptyMap, is_terminal |-> FALSE]

\* LengthGroupKey::new
LengthGroupKey(length, segments) == [length |-> length, segments |-> segments]

\* LengthGroups with a bucket that also takes the shorter labels.
LengthGroups_UpTo(children) ==
    [n \in {Len(seg) : seg \in DOMAIN children} |->
        {seg \in DOMAIN children : Len(seg) <= n}]

\* length_groups: HashMap<usize, BTreeSet<Vec<T>>>, the labels of a child
\* map bucketed by their length.
LengthGroups(children) ==
    [n \in {Len(seg) : seg \in DOMAIN children} |->
        {seg \in DOMAIN children : Len(seg) = n}]

\* grandchildren_loop whose insert leaves an existing key alone.
RECURSIVE grandchildren_loop_KeepFirst(_, _, _, _)
grandchildren_loop_KeepFirst(all_grandchildren, children, keys, i) ==
    IF i > Len(keys) THEN all_grandchildren
    ELSE grandchildren_loop_KeepFirst(
             IF keys[i] \in DOMAIN all_grandchildren THEN all_grandchildren
             ELSE Insert(all_grandchildren, keys[i], children[keys[i]]),
             children, keys, i + 1)

\* for (grandchild_segment, grandchild_node) in &child_node.children
\*     { all_grandchildren.insert(..) }, keys visited from index i on.
RECURSIVE grandchildren_loop(_, _, _, _)
grandchildren_loop(all_grandchildren, children, keys, i) ==
    IF i > Len(keys) THEN all_grandchildren
    ELSE grandchildren_loop(Insert(all_grandchildren, keys[i], children[keys[i]]),
                            children, keys, i + 1)

\* for segment in segments_in_group { .. }: the BTreeSet is visited in
\* ascending order (segs), from index i on; acc carries all_grandchildren
\* and any_terminal.  The values of acc the loop can end with, one for each
\* order in which the children maps of the members can be iterated.
RECURSIVE segments_loop(_, _, _, _)
\* segments_loop with any_terminal assigned from each child instead of set
\* once a terminal child is seen.
segments_loop_LastWins(original_children, segs, i, acc) ==
    IF i > Len(segs) THEN {acc}
    ELSE IF segs[i] \in DOMAIN original_children
         THEN LET child_node == original_children[segs[i]]
              IN UNION {segments_loop(original_children, segs, i + 1,
                            [all_grandchildren |->
                                 grandchildren_loop(acc.all_grandchildren,
                                                    child_node.children, keys, 1),
                             any_terminal |-> child_node.is_terminal]) :
                        keys \in HashIterSegs(DOMAIN child_node.children)}
         ELSE segments_loop(original_children, segs, i + 1, acc)

segments_loop(original_children, segs, i, acc) ==
    IF i > Len(segs) THEN {acc}
    ELSE IF segs[i] \in DOMAIN original_children
         THEN LET child_node == original_children[segs[i]]
              IN UNION {segments_loop(original_children, segs, i + 1,
                            [all_grandchildren |->
                                 grandchildren_loop(acc.all_grandchildren,
                                                    child_node.children, keys, 1),
                             any_terminal |-> acc.any_terminal \/ child_node.is_terminal]) :
                        keys \in HashIterSegs(DOMAIN child_node.children)}
         ELSE segments_loop(original_children, segs, i + 1, acc)

RECURSIVE merge_children_by_length_group(_, _)
RECURSIVE length_groups_loop(_, _, _, _)

\* for (length, segment_set) in length_groups { node.children.insert(..) },
\* the same loop in transform_node_recursive and in
\* merge_children_by_length_group; lengths visited in the order lengths
\* from index i on: the nodes the loop can end with.
length_groups_loop(node, children, lengths, i) ==
    IF i > Len(lengths) THEN {node}
    ELSE LET segment_set == LengthGroups(children)[lengths[i]]
             group_key == LengthGroupKey(lengths[i], segment_set)
         IN UNION {length_groups_loop(
                       [node EXCEPT !.children = Insert(@, group_key, merged_child)],
                       children, lengths, i + 1) :
                   merged_child \in merge_children_by_length_group(children, segment_set)}

\* merge_children_by_length_group that visits the bucket in the iteration
\* order of a HashSet instead of the ascending order of the BTreeSet.
\* The nodes the merge can return once the loop over the bucket has ended
\* with acc.
merged_node_outcomes(acc) ==
    UNION {length_groups_loop([NewGroupedNode EXCEPT !.is_terminal = acc.any_terminal],
                              acc.all_grandchildren, lengths, 1) :
           lengths \in HashIterInts(DOMAIN LengthGroups(acc.all_grandchildren))}

merge_children_by_length_group_HashOrder(original_children, segments_in_group) ==
    UNION {merged_node_outcomes(acc) :
           acc \in UNION {segments_loop(original_children, segs, 1,
                                        [all_grandchildren |-> EmptyMap,
                                         any_terminal |-> FALSE]) :
                          segs \in HashIterSegs(segments_in_group)}}

\* The nodes the call can return.
merge_children_by_length_group(original_children, segments_in_group) ==
    UNION {merged_node_outcomes(acc) :
           acc \in segments_loop(original_children, SortSegs(segments_in_group), 1,
                                 [all_grandchildren |-> EmptyMap, any_terminal |-> FALSE])}

\* The nodes the call can return.
transform_node_recursive(current_node) ==
    LET new_node == [NewGroupedNode EXCEPT !.is_terminal = current_node.is_terminal]
    IN IF DOMAIN current_node.children = {} THEN {new_node}
       ELSE UNION {length_groups_loop(new_node, current_node.children, lengths, 1) :
                   lengths \in HashIterInts(DOMAIN LengthGroups(current_node.children))}

from_trie(trie_root) == transform_node_recursive(trie_root)

(* ----------------------------- inputs ---------------------------------- *)

\* All token sequences of at most n tokens.
SeqsUpTo(n) == UNION {[1..k -> Tokens] : k \in 0..n}

\* All lists of at most n elements of S.
ListsUpTo(S, n) == UNION {[1..k -> S] : k \in 0..n}

\* All subsets of S of at most n elements.
RECURSIVE SubsetsUpTo(_, _)
SubsetsUpTo(S, n) ==
    IF n = 0 THEN {{}}
    ELSE UNION {{T} \cup {T \cup {x} : x \in S} : T \in SubsetsUpTo(S, n - 1)}

\* The words of tests/basic.rs test_generic_char_trie, one integer per
\* letter: a=1 b=2 c=3 e=4 i=5 l=6 n=7 o=8 p=9 r=10 s=11 t=12.
TestWords ==
    << <<1, 9, 4>>,                            \* ape
       <<1, 9, 9>>,                            \* app
       <<1, 9, 9, 6, 5, 3, 1, 12, 5, 8, 7>>,   \* application
       <<2, 1, 7, 11>>,                        \* bans
       <<2, 1, 12>>,                           \* bat
       <<2, 1, 7, 7, 4, 10>>,                  \* banner
       <<9, 8, 12>>,                           \* pot
       <<9, 8, 12, 5, 8, 7>> >>                \* potion

\* The sequences of tests/basic.rs test_generic_integer_trie.
TestInts == << <<1, 2>>, <<1, 3>>, <<2, 3>> >>

\* A list whose root edges [1] and [2] fall in one length bucket and both
\* have a grandchild edge [1], with different subtrees below it; the root
\* edge [3,3] makes a second length bucket.
CollisionList ==
    << <<1>>, <<1, 1>>, <<1, 1, 1>>, <<2>>, <<2, 1, 1>>, <<2, 1, 2>>, <<3, 3>> >>

\* A list whose sequences left below the root edge [1] share the two tokens
\* 2, 2 and then differ: one ends, one goes on.
DeepDivergentList == << <<1>>, <<1, 2, 2>>, <<1, 2, 2, 1>> >>

\* Input lists of the general specification: every list, duplicates and any
\* order included, within the bounds, every list of at most two sequences
\* of one more token, the lists of the repository's tests, the list with a
\* grandchild collision and the list with a common prefix of two tokens
\* below the root.
InputLists ==
    ListsUpTo(SeqsUpTo(MaxLen), MaxSeqs)
        \cup ListsUpTo(SeqsUpTo(MaxLen + 1), 2)
        \cup {TestWords, TestInts, CollisionList, DeepDivergentList}

(* --------------------------- state machine ----------------------------- *)

\* The caller holds a list of sequences; nothing is built yet.
Init ==
    /\ sequences \in InputLists
    /\ trie = NewTrieNode
    /\ grouped = NewGroupedNode
    /\ pc = "start"

\* The deep specification starts from longer lists of longer sequences, one
\* list (ascending) per set of sequences.
InitSets ==
    /\ sequences \in {SortSegs(S) : S \in SubsetsUpTo(SeqsUpTo(MaxLen + 1), MaxSet)}
    /\ trie = NewTrieNode
    /\ grouped = NewGroupedNode
    /\ pc = "start"

\* let trie = TrieNode::from_sequences(&sequences);
\* The call returns one of the tries it can return, or the program aborts
\* and no trie exists.
FromSequences ==
    /\ pc = "start"
    /\ IF from_sequences_completes(sequences)
       THEN trie' \in from_sequences(sequences) /\ pc' = "built"
       ELSE trie' = trie /\ pc' = "panicked"
    /\ UNCHANGED <<sequences, grouped>>

\* let length_grouped = LengthGroupedNode::from_trie(&trie);
FromTrie ==
    /\ pc = "built"
    /\ grouped' \in from_trie(trie)
    /\ pc' = "grouped"
    /\ UNCHANGED <<sequences, trie>>

Next == FromSequences \/ FromTrie

Spec == Init /\ [][Next]_vars

SpecSets == InitSets /\ [][Next]_vars

(* ------------------- vocabulary of the properties ---------------------- *)

IsPrefix(a, b) == Len(a) <= Len(b) /\ SubSeq(b, 1, Len(a)) = a

\* The concatenation of the labels of a path (a sequence of edge labels).
RECURSIVE Concat(_)
Concat(path) == IF path = <<>> THEN <<>> ELSE Head(path) \o Concat(Tail(path))

\* Every path (sequence of edge labels) from node down to any node below
\* it, the empty path to node itself included.
RECURSIVE AllPaths(_)
AllPaths(node) ==
    {<<>>} \cup UNION {{<<e>> \o p : p \in AllPaths(node.children[e])} :
                          e \in DOMAIN node.children}

\* The node a path leads to.
RECURSIVE NodeAt(_, _)
NodeAt(node, path) ==
    IF path = <<>> THEN node ELSE NodeAt(node.children[Head(path)], Tail(path))

\* The paths from node whose labels concatenate to s.
PathsSpelling(node, s) == {p \in AllPaths(node) : Concat(p) = s}

\* The grouped nodes reached from g by keys whose lengths are lens, in order.
RECURSIVE GroupedAt(_, _)
GroupedAt(g, lens) ==
    IF lens = <<>> THEN {g}
    ELSE UNION {GroupedAt(g.children[k], Tail(lens)) :
                    k \in {k \in DOMAIN g.children : k.length = Head(lens)}}

Built == pc \in {"built", "grouped"}

(* ------------------------------ claims --------------------------------- *)

\* C1: every sequence of the input list is spelled by exactly one path from
\* the root of the segmented trie (the empty path for the empty sequence).
C1_ExactlyOnePath ==
    Built => \A k \in 1..Len(sequences) :
                 Cardinality(PathsSpelling(trie, sequences[k])) = 1

\* C1 witness: a built trie in which two different input sequences are
\* spelled by paths of two edges that share their first edge.
C1_Witness ==
    /\ Built
    /\ C1_ExactlyOnePath
    /\ \E j, k \in 1..Len(sequences) :
           \E p \in PathsSpelling(trie, sequences[j]), q \in PathsSpelling(trie, sequences[k]) :
               Len(p) = 2 /\ Len(q) = 2 /\ p # q /\ p[1] = q[1]

\* C2 (as claimed): the path that spells an input sequence ends at a node
\* whose terminal flag is true.
C2_RoundTripTerminal ==
    Built => \A k \in 1..Len(sequences) :
                 \E p \in PathsSpelling(trie, sequences[k]) : NodeAt(trie, p).is_terminal

\* C3: the labels on the way to a terminal node concatenate to a sequence of
\* the input list.
C3_TerminalOnlyAtInput ==
    Built => \A p \in AllPaths(trie) :
                 NodeAt(trie, p).is_terminal => Concat(p) \in Range(sequences)

\* C3 witness: a built trie with a terminal node below the root, while some
\* other node below the root is not terminal.
C3_Witness ==
    /\ Built
    /\ \E p, q \in AllPaths(trie) :
           /\ p # <<>> /\ NodeAt(trie, p).is_terminal
           /\ Concat(p) \in Range(sequences)
           /\ q # <<>> /\ ~NodeAt(trie, q).is_terminal

\* C4: no label of a node is equal to, or a prefix of, the label of another
\* edge of the same node.
C4_NoOverlap ==
    Built => \A p \in AllPaths(trie) :
                 \A a, b \in DOMAIN NodeAt(trie, p).children :
                     a # b => ~IsPrefix(a, b)

\* C4 witness: a built trie with a node below the root that has two edges,
\* reached through build_divergent_segments or build_without_common_prefix.
C4_Witness ==
    /\ Built
    /\ C4_NoOverlap
    /\ \E p \in AllPaths(trie) :
           p # <<>> /\ Cardinality(DOMAIN NodeAt(trie, p).children) >= 2

\* The elements of list at the indices in I, in order, from index i on.
RECURSIVE Pick(_, _, _)
Pick(list, I, i) ==
    IF i > Len(list) THEN <<>>
    ELSE (IF i \in I THEN <<list[i]>> ELSE <<>>) \o Pick(list, I, i + 1)

\* C5: a list X and the list obtained from X by adding copies of sequences
\* of X build the same trie.  The state's list plays X with copies added; X
\* is any sublist of it that still holds every one of its sequences.
C5_DuplicatesIdempotent ==
    Built => \A I \in SUBSET (1..Len(sequences)) :
                 LET X == Pick(sequences, I, 1)
                 IN Range(X) = Range(sequences) => from_sequences(X) = {trie}

\* C5 witness: a built trie with an edge, from a list that repeats a
\* sequence of two tokens or more.
C5_Witness ==
    /\ Built
    /\ DOMAIN trie.children # {}
    /\ \E j, k \in 1..Len(sequences) :
           /\ j < k /\ sequences[j] = sequences[k] /\ Len(sequences[j]) >= 2
           /\ from_sequences(Pick(sequences, (1..Len(sequences)) \ {k}, 1)) = {trie}

\* C6 (as claimed): a single non-empty sequence s gives a root with the one
\* edge s to a childless terminal node, and a grouped root with the one key
\* (len(s), {s}) to a childless terminal node.
C6_SingleSequence ==
    (Built /\ Len(sequences) = 1 /\ sequences[1] # <<>>) =>
        LET s == sequences[1]
            key == LengthGroupKey(Len(s), {s})
        IN /\ DOMAIN trie.children = {s}
           /\ DOMAIN trie.children[s].children = {}
           /\ trie.children[s].is_terminal
           /\ pc = "grouped" =>
                  /\ DOMAIN grouped.children = {key}
                  /\ DOMAIN grouped.children[key].children = {}
                  /\ grouped.children[key].is_terminal

\* C7: the empty input list gives a childless non-terminal root, and so does
\* its length-grouped transform.
C7_EmptyInput ==
    (Built /\ sequences = <<>>) =>
        /\ DOMAIN trie.children = {}
        /\ ~trie.is_terminal
        /\ pc = "grouped" => (DOMAIN grouped.children = {} /\ ~grouped.is_terminal)

\* C7 witness: the empty list, built and transformed.
C7_Witness ==
    /\ pc = "grouped"
    /\ sequences = <<>>
    /\ trie = [children |-> <<>>, is_terminal |-> FALSE]
    /\ grouped = [children |-> <<>>, is_terminal |-> FALSE]

\* The keys the claim gives the grouped node of a segmented node n.
KeysByLength(n) ==
    {LengthGroupKey(k, {e \in DOMAIN n.children : Len(e) = k}) :
         k \in {Len(e) : e \in DOMAIN n.children}}

\* C8: the grouped node made from any segmented node n has one child per
\* distinct label length of n, keyed (k, all labels of n of length k); each
\* segment of a key has the key's length, which is at least 1; the grouped
\* root of the test's eight words has exactly 2 children.
C8_OneChildPerLength ==
    /\ Built =>
           \A p \in AllPaths(trie) :
               LET n == NodeAt(trie, p)
               IN \A g \in from_trie(n) :
                      /\ DOMAIN g.children = KeysByLength(n)
                      /\ Cardinality(DOMAIN g.children)
                             = Cardinality({Len(e) : e \in DOMAIN n.children})
                      /\ \A key \in DOMAIN g.children :
                             /\ key.length >= 1
                             /\ \A seg \in key.segments : Len(seg) = key.length
    /\ pc = "grouped" =>
           /\ DOMAIN grouped.children = KeysByLength(trie)
           /\ sequences = TestWords => Cardinality(DOMAIN grouped.children) = 2

\* C8 witness: the test's eight words, transformed: three root edges of
\* lengths 2, 2 and 3, two grouped children.
C8_Witness ==
    /\ pc = "grouped"
    /\ sequences = TestWords
    /\ Cardinality(DOMAIN trie.children) = 3
    /\ {Len(e) : e \in DOMAIN trie.children} = {2, 3}
    /\ Cardinality(DOMAIN grouped.children) = 2
    /\ \E key \in DOMAIN grouped.children : Cardinality(key.segments) = 2

\* C9 (as claimed): for every terminal node below the segmented root, some
\* grouped node reached by keys of the same lengths is terminal.
C9_TerminalNeverLost ==
    pc = "grouped" =>
        \A p \in AllPaths(trie) :
            (p # <<>> /\ NodeAt(trie, p).is_terminal) =>
                \E g \in GroupedAt(grouped, [i \in 1..Len(p) |-> Len(p[i])]) :
                    g.is_terminal

\* The combined grandchild mappings merge_children_by_length_group can
\* build.
AllGrandchildren(children, S) ==
    {acc.all_grandchildren :
         acc \in segments_loop(children, SortSegs(S), 1,
                               [all_grandchildren |-> EmptyMap, any_terminal |-> FALSE])}

\* Every call <<children, S>> of merge_children_by_length_group made while
\* a node with these children is transformed.
RECURSIVE MergeCalls(_)
MergeCalls(children) ==
    UNION {{<<children, LengthGroups(children)[n]>>}
               \cup UNION {MergeCalls(all) :
                               all \in AllGrandchildren(children, LengthGroups(children)[n])} :
           n \in DOMAIN LengthGroups(children)}

\* C10: the node a call merge_children_by_length_group(children, S) returns
\* is terminal iff some segment of S maps in children to a terminal node;
\* the grouped root has the terminal flag of the segmented root.
C10_MergedTerminal ==
    /\ Built =>
           \A c \in MergeCalls(trie.children) :
               \A merged \in merge_children_by_length_group(c[1], c[2]) :
                   merged.is_terminal
                       <=> \E seg \in c[2] : seg \in DOMAIN c[1] /\ c[1][seg].is_terminal
    /\ pc = "grouped" =>
           /\ grouped.is_terminal = trie.is_terminal
           /\ \A key \in DOMAIN grouped.children :
                  grouped.children[key].is_terminal
                      <=> \E seg \in key.segments : trie.children[seg].is_terminal

\* C10 witness: a grouped child that merges a terminal and a non-terminal
\* edge of the root and is terminal.
C10_Witness ==
    /\ pc = "grouped"
    /\ \E key \in DOMAIN grouped.children :
           /\ grouped.children[key].is_terminal
           /\ \E a, b \in key.segments :
                  trie.children[a].is_terminal /\ ~trie.children[b].is_terminal

\* C11: from_sequences followed by from_trie never aborts: no index or
\* slice out of range and no underflow, whatever the list.
C11_CompletesNormally ==
    /\ pc \in {"start", "built", "grouped"}
    /\ pc = "start" => from_sequences_completes(sequences)

\* C11 witness: both calls have returned for a list that holds a
\* zero-length sequence, a sequence twice, and a proper prefix of another.
C11_Witness ==
    /\ pc = "grouped"
    /\ \E i, j, k \in 1..Len(sequences) :
           /\ sequences[i] = <<>>
           /\ j # k /\ sequences[j] = sequences[k]
           /\ sequences[j] # <<>>
           /\ IsPrefix(sequences[i], sequences[j]) /\ sequences[i] # sequences[j]

\* The sequences of the input list, in input order, that the build of the
\* node at the end of path keeps: those that extend the spelling of the path
\* by at least one token (start_pos is the length of the spelling).
SequencesAt(path) ==
    SelectSeq(sequences, LAMBDA s : /\ IsPrefix(Concat(path), s)
                                    /\ Len(s) > Len(Concat(path)))

\* The longest token sequence that every sequence of the non-empty set S
\* carries from position start on.
LongestShared(S, start) ==
    LET rest(s) == Slice(s, start, Len(s))
        commons == {c \in UNION {{SubSeq(rest(s), 1, n) : n \in 0..Len(rest(s))} : s \in S} :
                        \A s \in S : IsPrefix(c, rest(s))}
    IN CHOOSE c \in commons : \A d \in commons : Len(d) <= Len(c)

\* C12: at a node whose sequences longer than start_pos have common prefix
\* length 0, there is exactly one child per distinct token at start_pos, and
\* the label of the child of token t is the longest prefix, from start_pos
\* on, shared by all the sequences whose token at start_pos is t.
C12_OneChildPerToken ==
    Built => \A p \in AllPaths(trie) :
                 LET start == Len(Concat(p))
                     at == SequencesAt(p)
                     tokens == {At(s, start) : s \in Range(at)}
                     group(t) == {s \in Range(at) : At(s, start) = t}
                     labels == DOMAIN NodeAt(trie, p).children
                 IN (Len(at) > 0 /\ find_longest_common_prefix(at, start) = 0) =>
                        /\ Cardinality(labels) = Cardinality(tokens)
                        /\ labels = {LongestShared(group(t), start) : t \in tokens}
                        /\ \A l \in labels : Len(l) >= 1

\* C12 witness: the trie of [1,2],[1,3],[2,3]: the root has a child [1],
\* whose node has the children [2] and [3], and a child [2,3].
C12_Witness ==
    /\ Built
    /\ sequences = TestInts
    /\ DOMAIN trie.children = {<<1>>, <<2, 3>>}
    /\ DOMAIN trie.children[<<1>>].children = {<<2>>, <<3>>}
    /\ find_longest_common_prefix(SequencesAt(<<>>), 0) = 0
    /\ find_longest_common_prefix(SequencesAt(<< <<1>> >>), 1) = 0

\* The segments of bucket S whose child, in children, has a grandchild edge
\* labelled g.
Holders(children, S, g) ==
    {seg \in S : seg \in DOMAIN children /\ g \in DOMAIN children[seg].children}

\* The segment of a non-empty set the ascending visit reaches last.
LastVisited(segs) == CHOOSE seg \in segs : \A o \in segs : o = seg \/ SegLess(o, seg)

\* C13: in every call merge_children_by_length_group(children, S) the
\* combined grandchild map has the grandchild labels of all the children of
\* S, and a label carried by several of them maps to the subtree of the one
\* visited last alone, unchanged: nothing of the others' subtrees is kept.
C13_LaterChildWins ==
    Built =>
        \A c \in MergeCalls(trie.children) :
            \A all \in AllGrandchildren(c[1], c[2]) :
                /\ DOMAIN all = UNION {DOMAIN c[1][seg].children : seg \in c[2]}
                /\ \A g \in DOMAIN all :
                       all[g] = c[1][LastVisited(Holders(c[1], c[2], g))].children[g]

\* C13 witness: the grouped trie is built from a trie in which two edges of
\* one length bucket carry the same grandchild label over different
\* subtrees, and the combined map holds the later one's subtree.
C13_Witness ==
    /\ pc = "grouped"
    /\ \E c \in MergeCalls(trie.children) :
           \E a, b \in c[2] :
               \E g \in DOMAIN c[1][a].children \cap DOMAIN c[1][b].children :
                   /\ SegLess(a, b)
                   /\ b = LastVisited(Holders(c[1], c[2], g))
                   /\ c[1][a].children[g] # c[1][b].children[g]
                   /\ \A all \in AllGrandchildren(c[1], c[2]) :
                          all[g] = c[1][b].children[g]

\* The positions of the sequences of the input list.
Positions == UNION {0..Len(sequences[k]) : k \in 1..Len(sequences)}

\* The sequences of the input list longer than start_pos, in input order.
LongerThan(start_pos) == SelectSeq(sequences, LAMBDA s : Len(s) > start_pos)

\* The largest L such that all the sequences of the non-empty list seqs
\* have, and agree on, every token in [start_pos, start_pos + L).
LargestAgree(seqs, start_pos) ==
    LET agree(L) == \A k \in 1..Len(seqs) :
                        /\ Len(seqs[k]) >= start_pos + L
                        /\ Slice(seqs[k], start_pos, start_pos + L)
                               = Slice(seqs[1], start_pos, start_pos + L)
        lengths == {L \in 0..(Len(seqs[1]) - start_pos) : agree(L)}
    IN CHOOSE L \in lengths : \A M \in lengths : M <= L

\* C14 (as claimed): on a non-empty list of sequences all longer than
\* start_pos, a list of exactly one sequence included,
\* find_longest_common_prefix returns the largest L such that all the
\* sequences agree on every token in [start_pos, start_pos + L).
C14_LargestAgreement ==
    pc = "built" =>
        \A start_pos \in Positions :
            Len(LongerThan(start_pos)) >= 1 =>
                find_longest_common_prefix(LongerThan(start_pos), start_pos)
                    = LargestAgree(LongerThan(start_pos), start_pos)

\* C14 (amended): on a list of two or more sequences all longer than
\* start_pos, find_longest_common_prefix returns the largest L such that all
\* the sequences agree on every token in [start_pos, start_pos + L); on a
\* list of exactly one sequence it returns 0.
C14_LargestAgreementOfSeveral ==
    pc = "built" =>
        \A start_pos \in Positions :
            /\ Len(LongerThan(start_pos)) >= 2 =>
                   find_longest_common_prefix(LongerThan(start_pos), start_pos)
                       = LargestAgree(LongerThan(start_pos), start_pos)
            /\ Len(LongerThan(start_pos)) = 1 =>
                   /\ find_longest_common_prefix(LongerThan(start_pos), start_pos) = 0
                   /\ LargestAgree(LongerThan(start_pos), start_pos) >= 1

\* C14 witness: a trie is built from a list of which, at one position, two
\* or more sequences agree on one token or more while one of them goes on
\* after the agreement, and of which, at another position, exactly one
\* sequence is left.
C14_Witness ==
    /\ pc = "built"
    /\ \E a, b \in Positions :
           /\ Len(LongerThan(a)) >= 2
           /\ find_longest_common_prefix(LongerThan(a), a) >= 1
           /\ find_longest_common_prefix(LongerThan(a), a) = LargestAgree(LongerThan(a), a)
           /\ \E j \in 1..Len(LongerThan(a)) :
                  Len(LongerThan(a)[j]) > a + find_longest_common_prefix(LongerThan(a), a)
           /\ Len(LongerThan(b)) = 1
           /\ find_longest_common_prefix(LongerThan(b), b) = 0

\* C15: every edge label of a built trie holds at least one token, so the
\* node below an edge is built from a start_pos (the length of the spelling
\* of its path) strictly greater than that of the node above it.
C15_LabelsNonEmpty ==
    Built => \A p \in AllPaths(trie) :
                 /\ \A e \in DOMAIN NodeAt(trie, p).children : Len(e) >= 1
                 /\ p # <<>> =>
                        Len(Concat(p)) > Len(Concat(SubSeq(p, 1, Len(p) - 1)))

\* C15 witness: a built trie with a path of two edges, the second made by
\* build_with_common_prefix below the root (its sequences all end after the
\* same tokens), both labels non-empty.
C15_Witness ==
    /\ Built
    /\ \E p \in AllPaths(trie) :
           /\ Len(p) = 2
           /\ Len(p[1]) >= 1 /\ Len(p[2]) >= 1
           /\ Len(SequencesAt(<<p[1]>>)) >= 2
           /\ find_longest_common_prefix(SequencesAt(<<p[1]>>), Len(p[1])) = Len(p[2])
           /\ \A k \in 1..Len(SequencesAt(<<p[1]>>)) :
                  SequencesAt(<<p[1]>>)[k] = Concat(p)

\* The node at the end of path is built by build_divergent_segments: its
\* sequences longer than start_pos have a common prefix of L > 0 tokens and
\* differ in what follows it (another token, or the end).
ReachesDivergentSegments(path) ==
    LET start == Len(Concat(path))
        at == SequencesAt(path)
        next_pos == start + find_longest_common_prefix(at, start)
    IN /\ Len(at) >= 1
       /\ find_longest_common_prefix(at, start) > 0
       /\ Cardinality({IF Len(at[k]) > next_pos THEN <<At(at[k], next_pos)>> ELSE <<>> :
                           k \in 1..Len(at)}) > 1

\* C16: at a node built by build_divergent_segments,
\* find_segment_until_divergence returns for every sequence the L-token
\* common prefix (no shorter part of it is a good breakpoint, the whole of
\* it is), and the node has exactly one child, labelled with that prefix
\* and built from all of the sequences at start_pos + L.
C16_DivergentIsOneChild ==
    Built => \A p \in AllPaths(trie) :
                 ReachesDivergentSegments(p) =>
                     LET start == Len(Concat(p))
                         at == SequencesAt(p)
                         L == find_longest_common_prefix(at, start)
                         prefix == Slice(at[1], start, start + L)
                     IN /\ Len(at) >= 2
                        /\ \A k \in 1..Len(at) :
                               find_segment_until_divergence(at[k], at, start) = prefix
                        /\ \A n \in 1..(L - 1) :
                               ~is_good_segment_breakpoint(
                                    Slice(at[1], start, start + n), at, start)
                        /\ is_good_segment_breakpoint(prefix, at, start)
                        /\ DOMAIN NodeAt(trie, p).children = {prefix}
                        /\ build_segmented_trie(at, start + L)
                               = {NodeAt(trie, p).children[prefix]}

\* C16 witness: a built trie with a node below the root built by
\* build_divergent_segments from a common prefix of two tokens or more,
\* whose first token alone is no good breakpoint, one of whose sequences
\* ends with the common prefix while another goes on; the node has one
\* child.
C16_Witness ==
    /\ Built
    /\ \E p \in AllPaths(trie) :
           /\ p # <<>>
           /\ ReachesDivergentSegments(p)
           /\ find_longest_common_prefix(SequencesAt(p), Len(Concat(p))) >= 2
           /\ ~is_good_segment_breakpoint(
                   Slice(SequencesAt(p)[1], Len(Concat(p)), Len(Concat(p)) + 1),
                   SequencesAt(p), Len(Concat(p)))
           /\ Cardinality(DOMAIN NodeAt(trie, p).children) = 1
           /\ \E e \in DOMAIN NodeAt(trie, p).children :
                  /\ Concat(p) \o e \in Range(sequences)
                  /\ \E s \in Range(sequences) :
                         IsPrefix(Concat(p) \o e, s) /\ s # Concat(p) \o e

\* The grouped trie stated without any order of visit: the keys of a child
\* map are its length buckets, the node under a bucket is terminal iff a
\* member is, and its grandchild map takes, label by label, the subtree
\* under the greatest member that carries the label.
RECURSIVE OrderFreeChildren(_)
OrderFreeMerged(children, S) ==
    [children |->
         OrderFreeChildren(
             [g \in UNION {DOMAIN children[seg].children : seg \in S} |->
                  children[LastVisited(Holders(children, S, g))].children[g]]),
     is_terminal |-> \E seg \in S : children[seg].is_terminal]

OrderFreeChildren(children) ==
    [key \in {LengthGroupKey(n, {seg \in DOMAIN children : Len(seg) = n}) :
                  n \in {Len(seg) : seg \in DOMAIN children}} |->
         OrderFreeMerged(children, key.segments)]

OrderFreeGrouped(node) ==
    [children |-> OrderFreeChildren(node.children), is_terminal |-> node.is_terminal]

\* C17: whichever order the HashMaps are iterated in, from_trie returns the
\* one grouped trie fixed by the segmented trie alone (keys, terminal flags
\* and subtrees), grandchild collisions included.
C17_IterationOrderIrrelevant ==
    /\ pc = "built" => from_trie(trie) = {OrderFreeGrouped(trie)}
    /\ pc = "grouped" => grouped = OrderFreeGrouped(trie)

\* C17 witness: the grouped trie is the order-free one, for a trie whose
\* root map of length buckets can be iterated in several orders and in
\* which two edges of one bucket carry the same grandchild label over
\* different subtrees.
C17_Witness ==
    /\ pc = "grouped"
    /\ grouped = OrderFreeGrouped(trie)
    /\ from_trie(trie) = {grouped}
    /\ Cardinality(HashIterInts(DOMAIN LengthGroups(trie.children))) >= 2
    /\ \E key \in DOMAIN grouped.children :
           \E a, b \in key.segments :
               \E g \in DOMAIN trie.children[a].children
                            \cap DOMAIN trie.children[b].children :
                   a # b /\ trie.children[a].children[g] # trie.children[b].children[g]

\* The list s with its entries i and j exchanged.
Swap(s, i, j) ==
    [k \in 1..Len(s) |-> IF k = i THEN s[j] ELSE IF k = j THEN s[i] ELSE s[k]]

\* C18: the segmented trie of a permutation of the input list is the
\* segmented trie of the input list (same labels, same terminal flags, at
\* every node): for every exchange of two entries of any input list, which
\* the input lists within the bounds are closed under and every permutation
\* is a product of, and for every permutation of a list of fewer than
\* MaxSeqs sequences.
C18_InputOrderIrrelevant ==
    pc = "built" =>
        /\ \A i, j \in 1..Len(sequences) :
               i < j => from_sequences(Swap(sequences, i, j)) = {trie}
        /\ Len(sequences) < MaxSeqs =>
               \A permuted \in Reorderings(sequences) : from_sequences(permuted) = {trie}

\* C18 witness: a trie built from a list of three different sequences whose
\* first sequence goes on after another sequence of the list ends, and the
\* list with another sequence put first gives the same trie.
C18_Witness ==
    /\ pc = "built"
    /\ Len(sequences) = 3
    /\ Cardinality(Range(sequences)) = 3
    /\ \E i \in 2..3 :
           /\ sequences[i] # <<>>
           /\ IsPrefix(sequences[i], sequences[1])
           /\ from_sequences(Swap(sequences, 1, i)) = {trie}
    /\ Cardinality(Reorderings(sequences)) = 6
    /\ \A permuted \in Reorderings(sequences) : from_sequences(permuted) = {trie}

====
